---- MODULE Spec2Model ----
(***************************************************************************)
(* A state-machine model of script.js, the client-side enhancement layer   *)
(* of the iamhardhey portfolio site.  Each module of the script            *)
(* (MobileMenu, ScrollManager, FormManager, ...) owns its own variables;   *)
(* a module's specification runs that module's event handlers and leaves   *)
(* the other modules' variables alone.                                     *)
(***************************************************************************)
EXTENDS Integers, Sequences, FiniteSets, TLC

VARIABLES
    \* ---- MobileMenu (script.js 45-82) ----
    hasToggle,      \* document.getElementById('menu-toggle') is not null
    hasNav,         \* document.querySelector('.nav') is not null
    menuListening,  \* init() got past line 50 and registered its listeners
    checked,        \* menuToggle.checked
    navActive,      \* nav.classList.contains('active')
    menuEvent,      \* the last event dispatched, with the state it found
    \* ---- ScrollManager (script.js 129-172) ----
    scrollY,        \* window.scrollY
    scrollThreshold,\* PortfolioManager.config.scrollThreshold
    btnVisible,     \* scrollToTopBtn.classList.contains('visible')
    ticking,        \* the closure's ticking flag
    rafPending,     \* updateScrollButton callbacks requested and not yet run
    lastSeenY,      \* the offset the last updateScrollButton read, -1: none ran
    unseenScroll,   \* a scroll event fired after the last updateScrollButton
    scrollEvent,    \* the last step taken, with the flag it found
    \* ---- FormManager (script.js 177-263) ----
    hasEmail,       \* form.querySelector('input[type="email"]') is not null
    hasTextarea,    \* form.querySelector('textarea') is not null
    hasButton,      \* form.querySelector('button[type="submit"]') is not null
    layout,         \* "separate": each field has its own parent element;
                    \* "shared": both fields are children of one element
    emailValue,     \* email.value, a sequence of characters
    messageValue,   \* textarea.value
    errClass,       \* per field: classList.contains('error')
    ariaInvalid,    \* per field: getAttribute('aria-invalid') = 'true'
    errorEls,       \* per parent: the texts of its '.error-message' children
    btnText,        \* submitBtn.textContent
    btnDisabled,    \* submitBtn.disabled
    timers,         \* pending setTimeout callbacks: the originalText of each
    formEvent,      \* the last step taken, with what it decided
    \* ---- PerformanceOptimizer (script.js 268-321) ----
    hasIO,          \* 'IntersectionObserver' in window
    imgs,           \* the img[data-src] elements and imageObserver's targets
    cards,          \* the card elements and elementObserver's targets
    lazyEvent,      \* the last callback run
    \* ---- PortfolioManager (script.js 7-40, 420) ----
    readyState,     \* document.readyState
    dclFired,       \* DOMContentLoaded has been dispatched
    dclListener,    \* initializeModules is a DOMContentLoaded listener
    initCalls,      \* document.readyState at each PortfolioManager.init() call
    initLog,        \* the module init() calls made, in order, each with the
                    \* readyState it ran under and what it ran from
    bootEvent,      \* the last step taken
    \* ---- NavigationManager, highlighting (script.js 87-102) ----
    pathname,       \* window.location.pathname, a sequence of "/" and names
    pageLinks,      \* the '.nav a' elements: href, 'active' class, aria-current
    navEvent,       \* the last step taken
    \* ---- throttle (script.js 397-406) ----
    thrNow,         \* the time, in timer units
    inThrottle,     \* the closure's inThrottle (undefined counts as false)
    thrTimers,      \* due times of the pending setTimeout callbacks
    thrCalls,       \* calls of the throttled function so far
    thrLog,         \* invocations of func: when, and with which argument
    thrEvent,       \* the last step taken
    \* ---- debounce (script.js 409-415) ----
    debNow,         \* the time, in timer units
    timeoutId,      \* the closure's timeoutId (0: undefined)
    debTimers,      \* pending setTimeout callbacks: id, due time, captured args
    debLog,         \* invocations of func: when, and with which argument
    debOpen,        \* the calls made since func last ran: how many, and the
                    \* time and argument of the last one
    debClosed,      \* the same, for each burst of calls a timer has ended
    debEvent,       \* the last step taken
    \* ---- AccessibilityManager (script.js 326-357) ----
    roleButtons,    \* the [role="button"] elements: tabindex attribute and
                    \* the number of keydown listeners init() has added
    iconButtons,    \* the '.button-cta, .scroll-to-top' elements: text,
                    \* aria-label and title attributes
    a11yMarkup,     \* both, as they were before init() first ran
    a11yInits,      \* runs of AccessibilityManager.init() so far
    a11yEvent,      \* the last step taken; for a key press, the number of
                    \* el.click() calls it made
    \* ---- NavigationManager, smooth scrolling (script.js 104-121) ----
    pageIds,        \* the id attributes of the document's elements
    smoothEvent     \* the last click on an a[href^="#"] link: its href and
                    \* what the listener did

menuVars == <<hasToggle, hasNav, menuListening, checked, navActive, menuEvent>>

scrollVars == <<scrollY, scrollThreshold, btnVisible, ticking, rafPending,
                lastSeenY, unseenScroll, scrollEvent>>

formVars == <<hasEmail, hasTextarea, hasButton, layout, emailValue,
              messageValue, errClass, ariaInvalid, errorEls, btnText,
              btnDisabled, timers, formEvent>>

lazyVars == <<hasIO, imgs, cards, lazyEvent>>

bootVars == <<readyState, dclFired, dclListener, initCalls, initLog, bootEvent>>

navVars == <<pathname, pageLinks, navEvent>>

thrVars == <<thrNow, inThrottle, thrTimers, thrCalls, thrLog, thrEvent>>

debVars == <<debNow, timeoutId, debTimers, debLog, debOpen, debClosed,
             debEvent>>

a11yVars == <<roleButtons, iconButtons, a11yMarkup, a11yInits, a11yEvent>>

smoothVars == <<pageIds, smoothEvent>>

vars == <<menuVars, scrollVars, formVars, lazyVars, bootVars, navVars,
          smoothVars, thrVars, debVars, a11yVars>>

\* What each module's handlers leave alone.
notMenuVars == <<scrollVars, formVars, lazyVars, bootVars, navVars,
                 smoothVars, thrVars, debVars, a11yVars>>

notScrollVars == <<menuVars, formVars, lazyVars, bootVars, navVars,
                   smoothVars, thrVars, debVars, a11yVars>>

notFormVars == <<menuVars, scrollVars, lazyVars, bootVars, navVars,
                 smoothVars, thrVars, debVars, a11yVars>>

notLazyVars == <<menuVars, scrollVars, formVars, bootVars, navVars,
                 smoothVars, thrVars, debVars, a11yVars>>

notBootVars == <<menuVars, scrollVars, formVars, lazyVars, navVars,
                 smoothVars, thrVars, debVars, a11yVars>>

notNavVars == <<menuVars, scrollVars, formVars, lazyVars, bootVars,
                smoothVars, thrVars, debVars, a11yVars>>

notSmoothVars == <<menuVars, scrollVars, formVars, lazyVars, bootVars,
                   navVars, thrVars, debVars, a11yVars>>

notThrVars == <<menuVars, scrollVars, formVars, lazyVars, bootVars, navVars,
                smoothVars, debVars, a11yVars>>

notDebVars == <<menuVars, scrollVars, formVars, lazyVars, bootVars, navVars,
                smoothVars, thrVars, a11yVars>>

notA11yVars == <<menuVars, scrollVars, formVars, lazyVars, bootVars, navVars,
                 smoothVars, thrVars, debVars>>

----------------------------------------------------------------------------
(***************************************************************************)
(* MODULE 1: MobileMenu                                                    *)
(***************************************************************************)

\* Where a click can land: the toggle control, the nav container itself, a
\* link inside the nav ('.nav a', or a descendant of one), another element
\* inside the nav, or anything outside both the nav and the toggle.
\* A link is told from the others by its position among the '.nav a' elements.
NumNavLinks == 4

NavLinks == 1..NumNavLinks

Target(kind, link) == [kind |-> kind, link |-> link]

ClickTargets ==
    {Target(k, 0) : k \in {"toggle", "nav", "navOther", "outside"}}
        \cup {Target("navLink", i) : i \in NavLinks}

Keys == {"Escape", "Enter", " ", "Tab", "a"}

\* nav.contains(e.target)
NavContains(target) == target.kind \in {"nav", "navLink", "navOther"}

\* menuToggle.contains(e.target)
ToggleContains(target) == target.kind = "toggle"

\* The pair the handlers read and write.
MenuState(c, a) == [checked |-> c, active |-> a]

\* menuToggle.checked = false; nav.classList.remove('active');
CloseMenu(m) == [m EXCEPT !.checked = FALSE, !.active = FALSE]

\* The toggle's 'change' listener: nav.classList.toggle('active', checked).
OnToggleChange(m) == [m EXCEPT !.active = m.checked]

\* The 'click' listener of every '.nav a'.
OnNavLinkClick(m) == CloseMenu(m)

\* A document 'click' listener that leaves out the nav.contains test.
OnDocumentClickIgnoringNav(m, target) ==
    IF ~ToggleContains(target) /\ m.checked THEN CloseMenu(m) ELSE m

\* The document's 'click' listener.
OnDocumentClick(m, target) ==
    IF ~NavContains(target) /\ ~ToggleContains(target) /\ m.checked
    THEN CloseMenu(m)
    ELSE m

\* A 'keydown' listener that unchecks the toggle and forgets the class.
OnDocumentKeydownKeepingClass(m, key) ==
    IF key = "Escape" /\ m.checked THEN [m EXCEPT !.checked = FALSE] ELSE m

\* The document's 'keydown' listener.
OnDocumentKeydown(m, key) ==
    IF key = "Escape" /\ m.checked THEN CloseMenu(m) ELSE m

\* An init() that goes on when either element is found.
MobileMenuInitEitherFound(toggleFound, navFound) == toggleFound \/ navFound

\* MobileMenu.init(): the listeners are registered only when both elements
\* were found; init() writes neither the checked flag nor the class list.
MobileMenuInit(toggleFound, navFound) == toggleFound /\ navFound

\* All click listeners of one click event, in dispatch order: the link's own
\* listener (target phase / bubbling through the link), then the document's.
DispatchClick(m, target) ==
    LET afterLink == IF target.kind = "navLink" THEN OnNavLinkClick(m) ELSE m
    IN  OnDocumentClick(afterLink, target)

TargetExists(target) ==
    IF target.kind = "toggle" THEN hasToggle
    ELSE IF NavContains(target) THEN hasNav
    ELSE TRUE

MenuInit ==
    /\ hasToggle \in BOOLEAN
    /\ hasNav \in BOOLEAN
    /\ menuListening = MobileMenuInit(hasToggle, hasNav)
    \* The markup (and the browser's form-state restoration) decides these;
    \* init() does not touch them.
    /\ checked \in (IF hasToggle THEN BOOLEAN ELSE {FALSE})
    /\ navActive \in (IF hasNav THEN BOOLEAN ELSE {FALSE})
    /\ menuEvent = [type |-> "init", target |-> Target("none", 0),
                    key |-> "none",
                    wasChecked |-> checked, wasActive |-> navActive]

MenuSet(m, type, target, key) ==
    /\ checked' = m.checked
    /\ navActive' = m.active
    /\ menuEvent' = [type |-> type, target |-> target, key |-> key,
                     wasChecked |-> checked, wasActive |-> navActive]
    /\ UNCHANGED <<hasToggle, hasNav, menuListening>>
    /\ UNCHANGED notMenuVars

\* The user activates the toggle control: the browser flips its checked flag,
\* dispatches the click (which bubbles to the document) and then 'change'.
UserToggle ==
    /\ hasToggle
    /\ LET flipped == MenuState(~checked, navActive)
       IN  MenuSet(IF menuListening
                   THEN OnToggleChange(OnDocumentClick(flipped, Target("toggle", 0)))
                   ELSE flipped,
                   "change", Target("toggle", 0), "none")

\* A click on anything but the toggle control.
Click(target) ==
    /\ target.kind # "toggle"
    /\ TargetExists(target)
    /\ MenuSet(IF menuListening
               THEN DispatchClick(MenuState(checked, navActive), target)
               ELSE MenuState(checked, navActive),
               "click", target, "none")

\* A key press anywhere in the document.
KeyDown(key) ==
    /\ key \in Keys
    /\ MenuSet(IF menuListening
               THEN OnDocumentKeydown(MenuState(checked, navActive), key)
               ELSE MenuState(checked, navActive),
               "keydown", Target("none", 0), key)

MenuNext ==
    \/ UserToggle
    \/ \E target \in ClickTargets : Click(target)
    \/ \E key \in Keys : KeyDown(key)

----------------------------------------------------------------------------
(***************************************************************************)
(* MODULE 3: ScrollManager                                                 *)
(***************************************************************************)

\* config.scrollThreshold
ScrollThreshold == 300

\* Another value the exported config object can be given.
AltThreshold == 150

Thresholds == {ScrollThreshold, AltThreshold}

MaxScrollY == 302

\* The offsets drawn: the top of the page, the end of the range, and the
\* offsets just below, at and just above each threshold.
ScrollOffsets ==
    {y \in 0..MaxScrollY :
        \/ y \in {0, 1, MaxScrollY}
        \/ \E t \in Thresholds : y \in (t - 1)..(t + 1)}

\* A 'scroll' listener that requests a frame on every event.
OnScrollUnguarded(t, pending) == [ticking |-> TRUE, pending |-> pending + 1]

\* The window's 'scroll' listener.
OnScroll(t, pending) ==
    IF ~t
    THEN [ticking |-> TRUE, pending |-> pending + 1]
    ELSE [ticking |-> t, pending |-> pending]

\* An updateScrollButton that shows the button at the threshold already.
UpdateScrollButtonAtThreshold(y, threshold) ==
    [visible |-> y >= threshold, ticking |-> FALSE]

\* An updateScrollButton that never lowers the ticking flag.
UpdateScrollButtonKeepingTicking(y, threshold) ==
    [visible |-> y > threshold, ticking |-> TRUE]

\* updateScrollButton; scrollToTopBtn is never null once init() has run.
UpdateScrollButton(y, threshold) ==
    [visible |-> y > threshold, ticking |-> FALSE]

\* ScrollManager.init(): the button is created with className
\* 'scroll-to-top' and no recomputation is run or requested.
ScrollInit ==
    /\ scrollY \in ScrollOffsets
    /\ scrollThreshold \in Thresholds
    /\ btnVisible = FALSE
    /\ ticking = FALSE
    /\ rafPending = 0
    /\ lastSeenY = -1
    /\ unseenScroll = FALSE
    /\ scrollEvent = [type |-> "init", wasTicking |-> FALSE]

\* The page is at rest at the top, with the default threshold.
ScrollRest ==
    /\ ScrollInit
    /\ scrollY = 0
    /\ scrollThreshold = ScrollThreshold

\* The page scrolls to offset y and the 'scroll' event is dispatched.
ScrollTo(y) ==
    /\ y # scrollY
    /\ scrollY' = y
    /\ LET r == OnScroll(ticking, rafPending)
       IN  ticking' = r.ticking /\ rafPending' = r.pending
    /\ unseenScroll' = TRUE
    /\ scrollEvent' = [type |-> "scroll", wasTicking |-> ticking]
    /\ UNCHANGED <<scrollThreshold, btnVisible, lastSeenY>>
    /\ UNCHANGED notScrollVars

\* A click on the scroll-to-top button: window.scrollTo({top: 0}).  The
\* scroll it starts is dispatched like any other.
ClickScrollTop ==
    /\ scrollY # 0
    /\ scrollY' = 0
    /\ LET r == OnScroll(ticking, rafPending)
       IN  ticking' = r.ticking /\ rafPending' = r.pending
    /\ unseenScroll' = TRUE
    /\ scrollEvent' = [type |-> "click", wasTicking |-> ticking]
    /\ UNCHANGED <<scrollThreshold, btnVisible, lastSeenY>>
    /\ UNCHANGED notScrollVars

\* The browser runs one requested animation-frame callback.
AnimationFrame ==
    /\ rafPending > 0
    /\ LET r == UpdateScrollButton(scrollY, scrollThreshold)
       IN  btnVisible' = r.visible /\ ticking' = r.ticking
    /\ rafPending' = rafPending - 1
    /\ lastSeenY' = scrollY
    /\ unseenScroll' = FALSE
    /\ scrollEvent' = [type |-> "frame", wasTicking |-> ticking]
    /\ UNCHANGED <<scrollY, scrollThreshold>>
    /\ UNCHANGED notScrollVars

ScrollNext ==
    \/ \E y \in ScrollOffsets : ScrollTo(y)
    \/ ClickScrollTop
    \/ AnimationFrame

----------------------------------------------------------------------------
(***************************************************************************)
(* MODULE 4: FormManager                                                   *)
(***************************************************************************)

\* Field values are sequences of characters over a small alphabet: a letter,
\* the two characters the pattern names, and a white-space character.
Chars == {"a", "@", ".", " "}

Whitespace == {" "}

MaxEmailLen == 5

MaxMessageLen == 1

StringsOver(alphabet, n) == UNION {[1..k -> alphabet] : k \in 0..n}

\* String.prototype.trim
RECURSIVE TrimStart(_)
TrimStart(s) ==
    IF s = <<>> THEN s
    ELSE IF Head(s) \in Whitespace THEN TrimStart(Tail(s))
    ELSE s

RECURSIVE TrimEnd(_)
TrimEnd(s) ==
    IF s = <<>> THEN s
    ELSE IF s[Len(s)] \in Whitespace THEN TrimEnd(SubSeq(s, 1, Len(s) - 1))
    ELSE s

Trim(s) == TrimEnd(TrimStart(s))

\* The character class [^\s@]
InClass(c) == c \notin Whitespace /\ c # "@"

\* The automaton of /^[^\s@]+@[^\s@]+\.[^\s@]+$/ : 0 at ^, 1 inside the
\* first [^\s@]+, 2 past '@', 3 inside the second [^\s@]+, 4 past '\.',
\* 5 inside the third [^\s@]+ (where $ accepts).  A '.' read inside the
\* second run may be the '\.' or one more character of the run.
RegexStep(q, c) ==
    CASE q = 0 -> IF InClass(c) THEN {1} ELSE {}
      [] q = 1 -> IF InClass(c) THEN {1} ELSE IF c = "@" THEN {2} ELSE {}
      [] q = 2 -> IF InClass(c) THEN {3} ELSE {}
      [] q = 3 -> IF InClass(c)
                  THEN (IF c = "." THEN {3, 4} ELSE {3})
                  ELSE {}
      [] q = 4 -> IF InClass(c) THEN {5} ELSE {}
      [] q = 5 -> IF InClass(c) THEN {5} ELSE {}

RECURSIVE RegexRun(_, _)
RegexRun(Q, s) ==
    IF s = <<>> THEN Q
    ELSE RegexRun(UNION {RegexStep(q, Head(s)) : q \in Q}, Tail(s))

\* isValidEmail: regex.test(email)
IsValidEmail(s) == 5 \in RegexRun({0}, s)

Fields == {"email", "textarea"}

Parents == {"p1", "p2"}

\* element.parentElement
ParentOf(lay, f) ==
    IF lay = "shared" \/ f = "email" THEN "p1" ELSE "p2"

EmailRequired == "Email is required"
EmailInvalid == "Please enter a valid email"
MessageRequired == "Message is required"

\* The button's text in the markup, and the text handleSubmit gives it
\* (the check mark that starts it is left out).
OriginalText == "Send Message"
SentText == "Message Sent"

Passed == [ok |-> TRUE, field |-> "none", message |-> "none"]

Failed(f, message) == [ok |-> FALSE, field |-> f, message |-> message]

\* A validateForm that tests the pattern before it tests for blankness.
ValidateFormPatternFirst(hasE, e, hasT, t) ==
    IF ~hasE \/ ~IsValidEmail(e) THEN Failed("email", EmailInvalid)
    ELSE IF Trim(e) = <<>> THEN Failed("email", EmailRequired)
    ELSE IF ~hasT \/ Trim(t) = <<>> THEN Failed("textarea", MessageRequired)
    ELSE Passed

\* A validateForm that checks only the fields the form has.
ValidateFormIgnoringMissing(hasE, e, hasT, t) ==
    IF hasE /\ Trim(e) = <<>> THEN Failed("email", EmailRequired)
    ELSE IF hasE /\ ~IsValidEmail(e) THEN Failed("email", EmailInvalid)
    ELSE IF hasT /\ Trim(t) = <<>> THEN Failed("textarea", MessageRequired)
    ELSE Passed

\* validateForm: which showError call it makes, if any.
ValidateForm(hasE, e, hasT, t) ==
    IF ~hasE \/ Trim(e) = <<>> THEN Failed("email", EmailRequired)
    ELSE IF ~IsValidEmail(e) THEN Failed("email", EmailInvalid)
    ELSE IF ~hasT \/ Trim(t) = <<>> THEN Failed("textarea", MessageRequired)
    ELSE Passed

\* The part of the document showError and clearErrors write.
Display(c, a, els) == [errClass |-> c, ariaInvalid |-> a, errorEls |-> els]

\* A showError that appends a new element on every call.
ShowErrorAlwaysCreating(d, present, lay, f, message) ==
    IF ~present THEN d
    ELSE LET p == ParentOf(lay, f)
         IN  [d EXCEPT !.errClass[f] = TRUE,
                       !.ariaInvalid[f] = TRUE,
                       !.errorEls[p] = Append(@, message)]

\* A showError that marks every field of the form.
ShowErrorMarkingAll(d, present, lay, f, message) ==
    IF ~present THEN d
    ELSE LET p == ParentOf(lay, f)
         IN  [d EXCEPT !.errClass = [g \in Fields |-> TRUE],
                       !.ariaInvalid = [g \in Fields |-> TRUE],
                       !.errorEls[p] = IF @ = <<>>
                                       THEN <<message>>
                                       ELSE [@ EXCEPT ![1] = message]]

\* showError(element, message); querySelector finds the parent's first
\* '.error-message', and a new one is appended only when there is none.
ShowError(d, present, lay, f, message) ==
    IF ~present THEN d
    ELSE LET p == ParentOf(lay, f)
         IN  [d EXCEPT !.errClass[f] = TRUE,
                       !.ariaInvalid[f] = TRUE,
                       !.errorEls[p] = IF @ = <<>>
                                       THEN <<message>>
                                       ELSE [@ EXCEPT ![1] = message]]

\* clearErrors(form)
ClearErrors(d) ==
    Display([f \in Fields |-> FALSE], [f \in Fields |-> FALSE],
            [p \in Parents |-> <<>>])

Present(f) == IF f = "email" THEN hasEmail ELSE hasTextarea

\* The values the model's user types into the form.
FormEmails == {<<>>, <<" ">>, <<"a">>, <<"a", "@", "a", ".", "a">>}

FormMessages == {<<>>, <<" ">>, <<"a">>}

MaxTimers == 2

\* The document as FormManager.init() finds it: no error shown, the submit
\* button enabled with its original text, no timer pending.
FormClean ==
    /\ errClass = [f \in Fields |-> FALSE]
    /\ ariaInvalid = [f \in Fields |-> FALSE]
    /\ errorEls = [p \in Parents |-> <<>>]
    /\ btnText = OriginalText
    /\ btnDisabled = FALSE
    /\ timers = <<>>
    /\ formEvent = [type |-> "init", result |-> Passed, prevented |-> FALSE,
                    hadErrorEl |-> FALSE]

FormInit ==
    /\ hasEmail \in BOOLEAN
    /\ hasTextarea \in BOOLEAN
    /\ hasButton \in BOOLEAN
    /\ layout \in {"separate", "shared"}
    /\ emailValue = <<>>
    /\ messageValue = <<>>
    /\ FormClean

\* A complete form with empty fields.
FormRest ==
    /\ FormInit
    /\ hasEmail /\ hasTextarea /\ hasButton
    /\ layout = "separate"

\* A complete form holding any pair of values.
ValidateInit ==
    /\ hasEmail = TRUE
    /\ hasTextarea = TRUE
    /\ hasButton = TRUE
    /\ layout = "separate"
    /\ emailValue \in StringsOver(Chars, MaxEmailLen)
    /\ messageValue \in StringsOver({"a", " "}, MaxMessageLen)
    /\ FormClean

\* The user edits the email field.
TypeEmail(v) ==
    /\ hasEmail
    /\ v # emailValue
    /\ emailValue' = v
    /\ formEvent' = [type |-> "input", result |-> Passed,
                     prevented |-> FALSE, hadErrorEl |-> FALSE]
    /\ UNCHANGED <<hasEmail, hasTextarea, hasButton, layout, messageValue,
                   errClass, ariaInvalid, errorEls, btnText, btnDisabled,
                   timers>>
    /\ UNCHANGED notFormVars

\* The user edits the message.
TypeMessage(v) ==
    /\ hasTextarea
    /\ v # messageValue
    /\ messageValue' = v
    /\ formEvent' = [type |-> "input", result |-> Passed,
                     prevented |-> FALSE, hadErrorEl |-> FALSE]
    /\ UNCHANGED <<hasEmail, hasTextarea, hasButton, layout, emailValue,
                   errClass, ariaInvalid, errorEls, btnText, btnDisabled,
                   timers>>
    /\ UNCHANGED notFormVars

\* handleSubmit(e), for a 'submit' event of the form.
Submit ==
    LET result == ValidateForm(hasEmail, emailValue, hasTextarea, messageValue)
        before == Display(errClass, ariaInvalid, errorEls)
        after  == IF result.ok
                  THEN ClearErrors(before)
                  ELSE ShowError(before, Present(result.field), layout,
                                 result.field, result.message)
        sent   == result.ok /\ hasButton
    IN  /\ sent => Len(timers) < MaxTimers
        /\ errClass' = after.errClass
        /\ ariaInvalid' = after.ariaInvalid
        /\ errorEls' = after.errorEls
        /\ btnText' = IF sent THEN SentText ELSE btnText
        /\ btnDisabled' = IF sent THEN TRUE ELSE btnDisabled
        /\ timers' = IF sent THEN Append(timers, btnText) ELSE timers
        /\ formEvent' =
              [type |-> "submit", result |-> result, prevented |-> TRUE,
               hadErrorEl |-> /\ ~result.ok
                              /\ errorEls[ParentOf(layout, result.field)] # <<>>]
        /\ UNCHANGED <<hasEmail, hasTextarea, hasButton, layout, emailValue,
                       messageValue>>
        /\ UNCHANGED notFormVars

\* The oldest pending setTimeout callback runs (all have the same delay):
\* form.reset(), then the button gets the text the callback captured.
TimerFire ==
    /\ timers # <<>>
    /\ emailValue' = <<>>
    /\ messageValue' = <<>>
    /\ btnText' = Head(timers)
    /\ btnDisabled' = FALSE
    /\ timers' = Tail(timers)
    /\ formEvent' = [type |-> "timer", result |-> Passed,
                     prevented |-> FALSE, hadErrorEl |-> FALSE]
    /\ UNCHANGED <<hasEmail, hasTextarea, hasButton, layout, errClass,
                   ariaInvalid, errorEls>>
    /\ UNCHANGED notFormVars

FormNext ==
    \/ \E v \in FormEmails : TypeEmail(v)
    \/ \E v \in FormMessages : TypeMessage(v)
    \/ Submit
    \/ TimerFire

----------------------------------------------------------------------------
(***************************************************************************)
(* MODULE 5: PerformanceOptimizer                                          *)
(***************************************************************************)

NumImages == 2

NumCards == 1

\* document.querySelectorAll('img[data-src]')
Images == 1..NumImages

\* document.querySelectorAll('.card, .project-card, .feature')
Cards == 1..NumCards

\* What an image's data-src attribute can hold: the attribute selector also
\* matches an empty one.
DataSrcs == {"", "real.jpg"}

Placeholder == "placeholder.gif"

\* Entries delivered per element while the model follows it.
MaxEntries == 2

\* img.dataset.src || img.src
SourceFor(img) == IF img.dataSrc # "" THEN img.dataSrc ELSE img.src

\* An image callback body that leaves the image under observation.
OnImageEntryStillObserved(st, i, isIntersecting) ==
    IF isIntersecting
    THEN [st EXCEPT !.els[i].src = SourceFor(st.els[i]),
                    !.els[i].loaded = TRUE,
                    !.els[i].runs = @ + 1]
    ELSE st

\* The imageObserver callback, for one entry.
OnImageEntry(st, i, isIntersecting) ==
    IF isIntersecting
    THEN [st EXCEPT !.els[i].src = SourceFor(st.els[i]),
                    !.els[i].loaded = TRUE,
                    !.els[i].runs = @ + 1,
                    !.observed = @ \ {i}]
    ELSE st

\* The elementObserver callback, for one entry.
OnCardEntry(st, c, isIntersecting) ==
    IF isIntersecting
    THEN [st EXCEPT !.els[c].fadeIn = TRUE,
                    !.els[c].runs = @ + 1,
                    !.observed = @ \ {c}]
    ELSE st

\* entries.forEach over the image entries of one callback; batch maps each
\* target of the callback to its entry's isIntersecting.
RECURSIVE ForEachImageEntry(_, _, _)
ForEachImageEntry(st, batch, todo) ==
    IF todo = {} THEN st
    ELSE LET i == CHOOSE x \in todo : \A y \in todo : x <= y
         IN  ForEachImageEntry(OnImageEntry(st, i, batch[i]), batch,
                               todo \ {i})

RECURSIVE ForEachCardEntry(_, _, _)
ForEachCardEntry(st, batch, todo) ==
    IF todo = {} THEN st
    ELSE LET c == CHOOSE x \in todo : \A y \in todo : x <= y
         IN  ForEachCardEntry(OnCardEntry(st, c, batch[c]), batch, todo \ {c})

\* The callbacks one rendering update can deliver: one entry for each of
\* some elements under observation.
Batches(observed) ==
    UNION {[T -> BOOLEAN] : T \in (SUBSET observed) \ {{}}}

\* The entries of a callback, noted on their targets: how many each target
\* has been given, and whether one of them was intersecting.
Counted(els, batch) ==
    [e \in DOMAIN els |->
        IF e \in DOMAIN batch
        THEN [els[e] EXCEPT !.entries = @ + 1, !.seen = @ \/ batch[e]]
        ELSE els[e]]

\* lazyLoadImages(): without IntersectionObserver every image gets its
\* data-src at once; with it, every image is put under observation.
LazyLoadImages(io, dataSrc) ==
    [els |-> [i \in Images |->
                [dataSrc |-> dataSrc[i],
                 src |-> IF io THEN Placeholder ELSE dataSrc[i],
                 loaded |-> FALSE, runs |-> 0, entries |-> 0, seen |-> FALSE]],
     observed |-> IF io THEN Images ELSE {}]

\* observeElementsForAnimation()
ObserveElementsForAnimation(io) ==
    [els |-> [c \in Cards |->
                [fadeIn |-> FALSE, runs |-> 0, entries |-> 0, seen |-> FALSE]],
     observed |-> IF io THEN Cards ELSE {}]

\* PerformanceOptimizer.init()
LazyInit ==
    /\ hasIO \in BOOLEAN
    /\ \E dataSrc \in [Images -> DataSrcs] :
          imgs = LazyLoadImages(hasIO, dataSrc)
    /\ cards = ObserveElementsForAnimation(hasIO)
    /\ lazyEvent = [type |-> "init"]

LazyRest ==
    /\ LazyInit
    /\ hasIO
    /\ \A i \in Images : imgs.els[i].dataSrc = "real.jpg"

\* The browser runs the imageObserver callback.
ImageNotify(batch) ==
    /\ DOMAIN batch \subseteq imgs.observed
    /\ \A i \in DOMAIN batch : imgs.els[i].entries < MaxEntries
    /\ LET counted == [imgs EXCEPT !.els = Counted(imgs.els, batch)]
       IN  imgs' = ForEachImageEntry(counted, batch, DOMAIN batch)
    /\ lazyEvent' = [type |-> "images"]
    /\ UNCHANGED <<hasIO, cards>>
    /\ UNCHANGED notLazyVars

\* The browser runs the elementObserver callback.
CardNotify(batch) ==
    /\ DOMAIN batch \subseteq cards.observed
    /\ \A c \in DOMAIN batch : cards.els[c].entries < MaxEntries
    /\ LET counted == [cards EXCEPT !.els = Counted(cards.els, batch)]
       IN  cards' = ForEachCardEntry(counted, batch, DOMAIN batch)
    /\ lazyEvent' = [type |-> "cards"]
    /\ UNCHANGED <<hasIO, imgs>>
    /\ UNCHANGED notLazyVars

LazyNext ==
    \/ \E batch \in Batches(Images) : ImageNotify(batch)
    \/ \E batch \in Batches(Cards) : CardNotify(batch)

----------------------------------------------------------------------------
(***************************************************************************)
(* MODULE 0: PortfolioManager                                              *)
(***************************************************************************)

\* initializeModules() calls these, top to bottom.
ModuleOrder ==
    <<"MobileMenu", "NavigationManager", "ScrollManager", "FormManager",
      "PerformanceOptimizer", "AccessibilityManager", "UIEnhancements">>

\* PortfolioManager.init() calls the model follows: the one that ends the
\* script, and further ones made through the returned object.
MaxInitCalls == 5

BootState ==
    [readyState |-> readyState, dclListener |-> dclListener,
     initCalls |-> initCalls, initLog |-> initLog]

\* A readiness test that never defers.
ShouldDeferNever(state) == FALSE

\* document.readyState === 'loading'
ShouldDefer(state) == state = "loading"

\* initializeModules(), run from a call of init() or from the event.
InitializeModules(b, from) ==
    [b EXCEPT !.initLog = @ \o
        [k \in 1..Len(ModuleOrder) |->
            [module |-> ModuleOrder[k], readyState |-> b.readyState,
             from |-> from]]]

\* PortfolioManager.init(); addEventListener keeps one registration of the
\* same function for the same event.
PortfolioManagerInit(b) ==
    LET called == [b EXCEPT !.initCalls = Append(@, b.readyState)]
    IN  IF ShouldDefer(b.readyState)
        THEN [called EXCEPT !.dclListener = TRUE]
        ELSE InitializeModules(called, "call")

\* The document dispatches DOMContentLoaded to its listeners.
OnDOMContentLoaded(b) ==
    IF b.dclListener THEN InitializeModules(b, "event") ELSE b

BootSet(b, type) ==
    /\ dclListener' = b.dclListener
    /\ initCalls' = b.initCalls
    /\ initLog' = b.initLog
    /\ bootEvent' = [type |-> type]

\* The script starts running: while the parser is still at work, after it
\* (deferred), or in a page already loaded (injected).
BootInit ==
    /\ readyState \in {"loading", "interactive", "complete"}
    /\ dclFired \in BOOLEAN
    /\ readyState = "loading" => ~dclFired
    /\ readyState = "complete" => dclFired
    /\ dclListener = FALSE
    /\ initCalls = <<>>
    /\ initLog = <<>>
    /\ bootEvent = [type |-> "start"]

\* A loaded page whose script has run to its end.
BootRest ==
    /\ readyState = "complete"
    /\ dclFired = TRUE
    /\ dclListener = FALSE
    /\ initCalls = <<"complete">>
    /\ initLog = InitializeModules([initLog |-> <<>>,
                                    readyState |-> "complete"], "call").initLog
    /\ bootEvent = [type |-> "init"]

CallInit ==
    /\ Len(initCalls) < MaxInitCalls
    /\ BootSet(PortfolioManagerInit(BootState), "init")
    /\ UNCHANGED <<readyState, dclFired>>
    /\ UNCHANGED notBootVars

\* The parser reaches the end of the document.
ParseEnd ==
    /\ readyState = "loading"
    /\ readyState' = "interactive"
    /\ bootEvent' = [type |-> "parsed"]
    /\ UNCHANGED <<dclFired, dclListener, initCalls, initLog>>
    /\ UNCHANGED notBootVars

FireDOMContentLoaded ==
    /\ readyState = "interactive"
    /\ ~dclFired
    /\ dclFired' = TRUE
    /\ BootSet(OnDOMContentLoaded(BootState), "DOMContentLoaded")
    /\ UNCHANGED readyState
    /\ UNCHANGED notBootVars

LoadComplete ==
    /\ readyState = "interactive"
    /\ dclFired
    /\ readyState' = "complete"
    /\ bootEvent' = [type |-> "load"]
    /\ UNCHANGED <<dclFired, dclListener, initCalls, initLog>>
    /\ UNCHANGED notBootVars

BootNext ==
    \/ CallInit
    \/ ParseEnd
    \/ FireDOMContentLoaded
    \/ LoadComplete

----------------------------------------------------------------------------
(***************************************************************************)
(* MODULE 2: NavigationManager, active-page highlighting                   *)
(***************************************************************************)

\* A path or an href is a sequence of pieces: the separator "/" or a name.
PathPieces == {"/", "index.html", "about.html"}

MaxPathLen == 3

HomePage == <<"index.html">>

\* window.location.pathname always starts with "/".
Pathnames ==
    {p \in UNION {[1..n -> PathPieces] : n \in 1..MaxPathLen} : p[1] = "/"}

\* The href attributes of the nav links: a page, a fragment, a path, an empty
\* attribute.
Hrefs ==
    {<<"index.html">>, <<"about.html">>, <<"#contact">>,
     <<"/", "about.html">>, <<>>}

NumPageLinks == 2

PageLinks == 1..NumPageLinks

\* pathname.split('/'): the pieces between separators, as a sequence of
\* segments; cur is the segment being read.
RECURSIVE SplitPath(_, _, _)
SplitPath(p, segs, cur) ==
    IF p = <<>> THEN Append(segs, cur)
    ELSE IF Head(p) = "/" THEN SplitPath(Tail(p), Append(segs, cur), <<>>)
    ELSE SplitPath(Tail(p), segs, Append(cur, Head(p)))

\* window.location.pathname.split('/').pop() || 'index.html'
CurrentPage(p) ==
    LET segs == SplitPath(p, <<>>, <<>>)
        last == segs[Len(segs)]
    IN  IF last = <<>> THEN HomePage ELSE last

\* link.getAttribute('href') === currentPage; a link without the attribute
\* gives null, which equals no string.
IsActive(link, currentPage) ==
    \/ link.hasHref /\ link.href = currentPage
    \/ currentPage = <<>> /\ link.hasHref /\ link.href = HomePage

\* A pass that marks the current page's link and clears nothing.
HighlightAddingOnly(p, links) ==
    [l \in DOMAIN links |->
        IF IsActive(links[l], CurrentPage(p))
        THEN [links[l] EXCEPT !.active = TRUE, !.ariaCurrent = "page"]
        ELSE links[l]]

\* highlightActivePage()
HighlightActivePage(p, links) ==
    [l \in DOMAIN links |->
        LET isActive == IsActive(links[l], CurrentPage(p))
        IN  [links[l] EXCEPT
                !.active = isActive,
                !.ariaCurrent = IF isActive THEN "page" ELSE "false"]]

\* NavigationManager.init(): the first pass, over whatever the markup holds.
NavInit ==
    /\ pathname \in Pathnames
    /\ \E markup \in [PageLinks -> [href : Hrefs, hasHref : BOOLEAN,
                                     active : BOOLEAN,
                                     ariaCurrent : {"absent", "page"}]] :
          /\ \A l \in PageLinks : ~markup[l].hasHref => markup[l].href = <<>>
          /\ pageLinks = HighlightActivePage(pathname, markup)
    /\ navEvent = [type |-> "init"]

NavRest ==
    /\ pathname = <<"/", "index.html">>
    /\ pageLinks = HighlightActivePage(pathname,
          [l \in PageLinks |->
              [href |-> IF l = 1 THEN <<"index.html">> ELSE <<"about.html">>,
               hasHref |-> TRUE, active |-> FALSE, ariaCurrent |-> "absent"]])
    /\ navEvent = [type |-> "init"]

\* The window dispatches hashchange.
HashChange ==
    /\ pageLinks' = HighlightActivePage(pathname, pageLinks)
    /\ navEvent' = [type |-> "hashchange"]
    /\ UNCHANGED pathname
    /\ UNCHANGED notNavVars

NavNext == HashChange

----------------------------------------------------------------------------
(***************************************************************************)
(* UTILITY: throttle                                                       *)
(***************************************************************************)

\* throttle(func, limit): the limit the wrapper was made with.
ThrLimit == 2

\* How far the clock runs and how many calls are made.
MaxTime == 4

MaxThrCalls == 4

Args == {"x", "y"}

\* How a call of func ends.
Outcomes == {"returns", "throws"}

ThrState ==
    [inThrottle |-> inThrottle, timers |-> thrTimers, log |-> thrLog]

\* The function throttle returns, called at time now with one argument;
\* func.apply comes first, so when func throws the two statements after it
\* are not reached and the exception goes to the caller.
Throttled(t, now, arg, outcome) ==
    IF ~t.inThrottle
    THEN LET applied == [t EXCEPT !.log = Append(@, [at |-> now, arg |-> arg])]
         IN  IF outcome = "throws" THEN applied
             ELSE [applied EXCEPT !.inThrottle = TRUE,
                                  !.timers = @ \cup {now + ThrLimit}]
    ELSE t

\* () => inThrottle = false
OnThrottleTimeout(t, due) ==
    [t EXCEPT !.inThrottle = FALSE, !.timers = @ \ {due}]

ThrSet(t, type) ==
    /\ inThrottle' = t.inThrottle
    /\ thrTimers' = t.timers
    /\ thrLog' = t.log
    /\ thrEvent' = [type |-> type]

\* A wrapper fresh from throttle(func, limit).
ThrInit ==
    /\ thrNow = 0
    /\ inThrottle = FALSE
    /\ thrTimers = {}
    /\ thrCalls = 0
    /\ thrLog = <<>>
    /\ thrEvent = [type |-> "made"]

ThrCall(arg, outcome) ==
    /\ thrCalls < MaxThrCalls
    /\ thrCalls' = thrCalls + 1
    /\ ThrSet(Throttled(ThrState, thrNow, arg, outcome), "call")
    /\ UNCHANGED thrNow
    /\ UNCHANGED notThrVars

\* A timer callback runs, at its due time or later.
ThrTimerFire(due) ==
    /\ due \in thrTimers
    /\ due <= thrNow
    /\ ThrSet(OnThrottleTimeout(ThrState, due), "timeout")
    /\ UNCHANGED <<thrNow, thrCalls>>
    /\ UNCHANGED notThrVars

ThrTick ==
    /\ thrNow < MaxTime
    /\ thrNow' = thrNow + 1
    /\ thrEvent' = [type |-> "tick"]
    /\ UNCHANGED <<inThrottle, thrTimers, thrCalls, thrLog>>
    /\ UNCHANGED notThrVars

ThrNext ==
    \/ \E arg \in Args, outcome \in Outcomes : ThrCall(arg, outcome)
    \/ \E due \in 0..(MaxTime + ThrLimit + 1) : ThrTimerFire(due)
    \/ ThrTick

----------------------------------------------------------------------------
(***************************************************************************)
(* UTILITY: debounce                                                       *)
(***************************************************************************)

\* debounce(func, delay): the delay the wrapper was made with.
DebDelay == 2

MaxDebCalls == 4

DebState == [timeoutId |-> timeoutId, timers |-> debTimers, log |-> debLog]

\* setTimeout: a new id, a due time, and the arguments the callback captured.
Timer(id, due, arg) == [id |-> id, due |-> due, arg |-> arg]

\* clearTimeout(id): no effect when no pending timer has that id.
ClearTimeout(pending, id) == {t \in pending : t.id # id}

\* A wrapper that starts a timer without cancelling the pending one.
DebouncedWithoutClear(d, now, arg) ==
    [d EXCEPT !.timeoutId = d.timeoutId + 1,
              !.timers = @ \cup {Timer(d.timeoutId + 1, now + DebDelay, arg)}]

\* The function debounce returns, called at time now with one argument.
Debounced(d, now, arg) ==
    [d EXCEPT !.timeoutId = d.timeoutId + 1,
              !.timers = ClearTimeout(@, d.timeoutId)
                            \cup {Timer(d.timeoutId + 1, now + DebDelay, arg)}]

\* () => func.apply(this, args)
OnDebounceTimeout(d, t, now) ==
    [d EXCEPT !.timers = @ \ {t},
              !.log = Append(@, [at |-> now, arg |-> t.arg])]

DebSet(d, type) ==
    /\ timeoutId' = d.timeoutId
    /\ debTimers' = d.timers
    /\ debLog' = d.log
    /\ debEvent' = [type |-> type]

NoCalls == [calls |-> 0, lastAt |-> 0, lastArg |-> "x"]

\* A wrapper fresh from debounce(func, delay).
DebInit ==
    /\ debNow = 0
    /\ timeoutId = 0
    /\ debTimers = {}
    /\ debLog = <<>>
    /\ debOpen = NoCalls
    /\ debClosed = <<>>
    /\ debEvent = [type |-> "made"]

DebCall(arg) ==
    /\ timeoutId < MaxDebCalls
    /\ DebSet(Debounced(DebState, debNow, arg), "call")
    /\ debOpen' = [calls |-> debOpen.calls + 1, lastAt |-> debNow,
                   lastArg |-> arg]
    /\ UNCHANGED <<debNow, debClosed>>
    /\ UNCHANGED notDebVars

\* A timer callback runs, at its due time or later; the calls made since the
\* last one ran, if any, are the burst it ends.
DebTimerFire(id) ==
    /\ \E t \in debTimers :
          /\ t.id = id
          /\ t.due <= debNow
          /\ DebSet(OnDebounceTimeout(DebState, t, debNow), "timeout")
    /\ debClosed' = IF debOpen.calls > 0 THEN Append(debClosed, debOpen)
                    ELSE debClosed
    /\ debOpen' = NoCalls
    /\ UNCHANGED debNow
    /\ UNCHANGED notDebVars

DebTick ==
    /\ debNow < MaxTime
    /\ debNow' = debNow + 1
    /\ debEvent' = [type |-> "tick"]
    /\ UNCHANGED <<timeoutId, debTimers, debLog, debOpen, debClosed>>
    /\ UNCHANGED notDebVars

DebNext ==
    \/ \E arg \in Args : DebCall(arg)
    \/ \E id \in 1..(MaxDebCalls + 1) : DebTimerFire(id)
    \/ DebTick

----------------------------------------------------------------------------
(***************************************************************************)
(* MODULE 6: AccessibilityManager                                          *)
(***************************************************************************)

NumRoleButtons == 2

RoleButtons == 1..NumRoleButtons

NumIconButtons == 1

IconButtons == 1..NumIconButtons

\* Runs of init() the model follows: initializeModules() runs once for every
\* PortfolioManager.init() call made after loading, and once for the event.
MaxA11yInits == 2

\* An attribute: absent (getAttribute gives null), or present with a value.
Attr(present, value) == [present |-> present, value |-> value]

NoAttr == Attr(FALSE, "")

\* A value used as a condition: null and '' are falsy.
Truthy(attr) == attr.present /\ attr.value # ""

\* improveKeyboardNavigation(), for one element: a tabindex where there is
\* none, and one more keydown listener (each call makes a new function, so
\* none is taken for a duplicate).
ImproveKeyboardNavigation(el) ==
    [el EXCEPT !.tabindex = IF ~@.present THEN Attr(TRUE, "0") ELSE @,
               !.listeners = @ + 1]

\* ensureProperAriaLabels(), for one element.
EnsureProperAriaLabels(btn) ==
    IF Trim(btn.text) = <<>> /\ ~Truthy(btn.ariaLabel)
    THEN [btn EXCEPT !.ariaLabel =
             Attr(TRUE, IF Truthy(btn.title) THEN btn.title.value ELSE "Button")]
    ELSE btn

\* AccessibilityManager.init()
AccessibilityManagerInit(page) ==
    [roleButtons |-> [b \in DOMAIN page.roleButtons |->
                         ImproveKeyboardNavigation(page.roleButtons[b])],
     iconButtons |-> [b \in DOMAIN page.iconButtons |->
                         EnsureProperAriaLabels(page.iconButtons[b])]]

\* One keydown listener's el.click() calls for a key: 1 or 0.
OnRoleButtonKeydown(key) == IF key = "Enter" \/ key = " " THEN 1 ELSE 0

\* The el.click() calls of one key press on an element: every listener runs.
ClicksFor(el, key) == el.listeners * OnRoleButtonKeydown(key)

\* The page as its markup gives it, before init() runs.
A11yInit ==
    /\ roleButtons \in
          [RoleButtons ->
              [tabindex : {NoAttr, Attr(TRUE, "0"), Attr(TRUE, "-1")},
               listeners : {0}]]
    /\ iconButtons \in
          [IconButtons ->
              [text : {<<>>, <<" ">>, <<"a">>},
               ariaLabel : {NoAttr, Attr(TRUE, ""), Attr(TRUE, "Menu")},
               title : {NoAttr, Attr(TRUE, "Back to top")}]]
    /\ a11yMarkup = [roleButtons |-> roleButtons, iconButtons |-> iconButtons]
    /\ a11yInits = 0
    /\ a11yEvent = [type |-> "markup", key |-> "", clicks |-> 0]

A11yRest ==
    /\ A11yInit
    /\ \A b \in RoleButtons : roleButtons[b].tabindex = NoAttr
    /\ \A b \in IconButtons :
          /\ iconButtons[b].text = <<>>
          /\ iconButtons[b].ariaLabel = NoAttr
          /\ iconButtons[b].title = NoAttr

RunA11yInit ==
    /\ a11yInits < MaxA11yInits
    /\ LET page == AccessibilityManagerInit(
                      [roleButtons |-> roleButtons, iconButtons |-> iconButtons])
       IN  /\ roleButtons' = page.roleButtons
           /\ iconButtons' = page.iconButtons
    /\ a11yInits' = a11yInits + 1
    /\ a11yEvent' = [type |-> "init", key |-> "", clicks |-> 0]
    /\ UNCHANGED a11yMarkup
    /\ UNCHANGED notA11yVars

\* A key is pressed with a role="button" element focused.
RoleButtonKeyDown(b, key) ==
    /\ a11yEvent' = [type |-> "keydown", key |-> key,
                     clicks |-> ClicksFor(roleButtons[b], key)]
    /\ UNCHANGED <<roleButtons, iconButtons, a11yMarkup, a11yInits>>
    /\ UNCHANGED notA11yVars

A11yNext ==
    \/ RunA11yInit
    \/ \E b \in RoleButtons, key \in Keys : RoleButtonKeyDown(b, key)

----------------------------------------------------------------------------
(***************************************************************************)
(* MODULE 2: NavigationManager, smooth scrolling                           *)
(***************************************************************************)

\* The characters of an id: a letter and a digit stand for the two kinds a
\* CSS selector tells apart.
IdChars == {"c", "1"}

MaxIdLen == 2

\* Elements with an id in one document.
MaxTargets == 2

Ids == UNION {[1..n -> IdChars] : n \in 1..MaxIdLen}

\* The href attributes a[href^="#"] selects: "#" followed by any id, or by
\* nothing.
FragmentHrefs == {<<"#">> \o id : id \in Ids \cup {<<>>}}

\* Whether document.querySelector takes the string for a selector: "#" must
\* be followed by an identifier, and an identifier does not start with a
\* digit. For anything else it throws a SyntaxError.
IsValidSelector(sel) ==
    /\ Len(sel) >= 2
    /\ sel[1] = "#"
    /\ sel[2] # "1"

\* document.querySelector(sel) for a valid id selector: found or null.
QuerySelector(ids, sel) == Tail(sel) \in ids

Outcome(prevented, scrolled, focused, threw) ==
    [prevented |-> prevented, scrolled |-> scrolled, focused |-> focused,
     threw |-> threw]

\* The click listener of one a[href^="#"] link.
OnAnchorClick(ids, href) ==
    IF href = <<"#">> THEN Outcome(FALSE, 0, 0, FALSE)
    ELSE IF ~IsValidSelector(href) THEN Outcome(TRUE, 0, 0, TRUE)
    ELSE IF QuerySelector(ids, href) THEN Outcome(TRUE, 1, 1, FALSE)
    ELSE Outcome(TRUE, 0, 0, FALSE)

\* addSmoothScrolling() has given every fragment link its listener.
SmoothInit ==
    /\ pageIds \in {S \in SUBSET Ids : Cardinality(S) <= MaxTargets}
    /\ smoothEvent = [type |-> "init", href |-> <<>>,
                      outcome |-> Outcome(FALSE, 0, 0, FALSE)]

SmoothRest ==
    /\ SmoothInit
    /\ pageIds = {}

AnchorClick(href) ==
    /\ smoothEvent' = [type |-> "click", href |-> href,
                       outcome |-> OnAnchorClick(pageIds, href)]
    /\ UNCHANGED pageIds
    /\ UNCHANGED notSmoothVars

SmoothNext == \E href \in FragmentHrefs : AnchorClick(href)

----------------------------------------------------------------------------
(***************************************************************************)
(* Specifications                                                          *)
(***************************************************************************)

MenuRest ==
    /\ MenuInit
    /\ hasToggle /\ hasNav /\ ~checked /\ ~navActive

Init == MenuInit /\ ScrollInit /\ FormInit /\ LazyInit /\ BootInit /\ NavInit
    /\ SmoothInit /\ ThrInit /\ DebInit /\ A11yInit

Next == MenuNext \/ ScrollNext \/ FormNext \/ LazyNext \/ BootNext \/ NavNext
    \/ SmoothNext \/ ThrNext \/ DebNext \/ A11yNext

\* The whole page.
Spec == Init /\ [][Next]_vars

InitMenu ==
    MenuInit /\ ScrollRest /\ FormRest /\ LazyRest /\ BootRest /\ NavRest
    /\ SmoothRest /\ ThrInit /\ DebInit /\ A11yRest

SpecMenu == InitMenu /\ [][MenuNext]_vars

InitScroll ==
    MenuRest /\ ScrollInit /\ FormRest /\ LazyRest /\ BootRest /\ NavRest
    /\ SmoothRest /\ ThrInit /\ DebInit /\ A11yRest

SpecScroll == InitScroll /\ [][ScrollNext]_vars

\* requestAnimationFrame callbacks of a rendered page do get run.
SpecScrollFair == SpecScroll /\ WF_vars(AnimationFrame)

InitForm ==
    MenuRest /\ ScrollRest /\ FormInit /\ LazyRest /\ BootRest /\ NavRest
    /\ SmoothRest /\ ThrInit /\ DebInit /\ A11yRest

SpecForm == InitForm /\ [][FormNext]_vars

InitValidate ==
    MenuRest /\ ScrollRest /\ ValidateInit /\ LazyRest /\ BootRest /\ NavRest
    /\ SmoothRest /\ ThrInit /\ DebInit /\ A11yRest

\* validateForm applied to every pair of field values.
SpecValidate == InitValidate /\ [][Submit]_vars

InitLazy ==
    MenuRest /\ ScrollRest /\ FormRest /\ LazyInit /\ BootRest /\ NavRest
    /\ SmoothRest /\ ThrInit /\ DebInit /\ A11yRest

SpecLazy == InitLazy /\ [][LazyNext]_vars

InitBoot ==
    MenuRest /\ ScrollRest /\ FormRest /\ LazyRest /\ BootInit /\ NavRest
    /\ SmoothRest /\ ThrInit /\ DebInit /\ A11yRest

SpecBoot == InitBoot /\ [][BootNext]_vars

InitNav ==
    MenuRest /\ ScrollRest /\ FormRest /\ LazyRest /\ BootRest /\ NavInit
    /\ SmoothRest /\ ThrInit /\ DebInit /\ A11yRest

SpecNav == InitNav /\ [][NavNext]_vars

InitSmooth ==
    MenuRest /\ ScrollRest /\ FormRest /\ LazyRest /\ BootRest /\ NavRest
    /\ SmoothInit /\ ThrInit /\ DebInit /\ A11yRest

SpecSmooth == InitSmooth /\ [][SmoothNext]_vars

InitThrottle ==
    MenuRest /\ ScrollRest /\ FormRest /\ LazyRest /\ BootRest /\ NavRest
    /\ SmoothRest /\ ThrInit /\ DebInit /\ A11yRest

SpecThrottle == InitThrottle /\ [][ThrNext]_vars

InitDebounce ==
    MenuRest /\ ScrollRest /\ FormRest /\ LazyRest /\ BootRest /\ NavRest
    /\ SmoothRest /\ ThrInit /\ DebInit /\ A11yRest

SpecDebounce == InitDebounce /\ [][DebNext]_vars

InitA11y ==
    MenuRest /\ ScrollRest /\ FormRest /\ LazyRest /\ BootRest /\ NavRest
    /\ SmoothRest /\ ThrInit /\ DebInit /\ A11yInit

SpecA11y == InitA11y /\ [][A11yNext]_vars

----------------------------------------------------------------------------
(* Properties of MobileMenu *)

\* C1: once init() has registered its listeners, the nav carries 'active'
\* if and only if the toggle is checked, in every reachable state.
C1_ActiveIffChecked == menuListening => (navActive <=> checked)

\* A click outside both the nav and the toggle, or an Escape key press.
IsDismissal(e) ==
    \/ e.type = "click" /\ e.target.kind = "outside"
    \/ e.type = "keydown" /\ e.key = "Escape"

\* C2: an outside click or an Escape key press closes an open menu (toggle
\* unchecked, 'active' removed) and changes neither the checked flag nor the
\* class of a closed one.
C2_DismissalClosesOnlyWhenOpen ==
    [][(menuListening /\ IsDismissal(menuEvent'))
          => IF checked
             THEN ~checked' /\ ~navActive'
             ELSE checked' = checked /\ navActive' = navActive]_vars

\* An open, active menu has just been closed by an outside click.
C2_Witness ==
    /\ menuListening
    /\ menuEvent.type = "click" /\ menuEvent.target.kind = "outside"
    /\ menuEvent.wasChecked /\ menuEvent.wasActive
    /\ ~checked /\ ~navActive

\* C3 as stated: while the menu is open, no click inside the nav container,
\* a click on a navigation link included, closes it.
C3_InsideClickNeverCloses ==
    [][(menuListening /\ checked /\ menuEvent'.type = "click"
            /\ NavContains(menuEvent'.target))
          => checked' /\ navActive' = navActive]_vars

\* C3 amended: while the menu is open, a click inside the nav container that
\* is not on a navigation link keeps the toggle checked and the class as it
\* was; a click on a navigation link closes the menu.
C3_InsideClickClosesOnlyOnLink ==
    [][(menuListening /\ checked /\ menuEvent'.type = "click"
            /\ NavContains(menuEvent'.target))
          => IF menuEvent'.target.kind = "navLink"
             THEN ~checked' /\ ~navActive'
             ELSE checked' /\ navActive' = navActive]_vars

\* An open menu has just been clicked inside the nav, off the links, and is
\* still open.
C3_Witness ==
    /\ menuListening
    /\ menuEvent.type = "click" /\ menuEvent.target.kind = "navOther"
    /\ menuEvent.wasChecked /\ menuEvent.wasActive
    /\ checked /\ navActive

\* C18: when the toggle or the nav is missing, init() registers no listener,
\* and no click and no key press changes the toggle's checked flag or the
\* nav's 'active' class.
C18_MissingMarkupIsNoOp ==
    [][~(hasToggle /\ hasNav)
          => /\ ~menuListening
             /\ menuEvent'.type \in {"click", "keydown"}
                   => checked' = checked /\ navActive' = navActive]_vars

\* On a page with a checked toggle and no nav, Escape was pressed and the
\* toggle is still checked.
C18_Witness ==
    /\ hasToggle /\ ~hasNav
    /\ menuEvent.type = "keydown" /\ menuEvent.key = "Escape"
    /\ menuEvent.wasChecked /\ checked

----------------------------------------------------------------------------
(* Properties of ScrollManager *)

\* C4: at most one updateScrollButton recomputation is requested and not
\* yet run, however many scroll events fire before the frame.
C4_AtMostOnePending == rafPending <= 1

\* A scroll event arrived while a recomputation was pending already.
C4_Witness ==
    /\ scrollEvent.type = "scroll" /\ scrollEvent.wasTicking
    /\ rafPending = 1

\* C5 as stated: in every reachable state the button carries 'visible' if
\* and only if the current scroll offset exceeds the threshold.
C5_VisibleIffAboveThreshold == btnVisible <=> (scrollY > scrollThreshold)

\* C5 amended: the button carries 'visible' if and only if the offset read
\* by the last updateScrollButton run exceeds the threshold (never, before
\* the first run); that offset is the current one whenever a run has
\* happened and no scroll event has fired since.
C5_VisibleIffAboveAtLastUpdate ==
    /\ btnVisible <=> (lastSeenY > scrollThreshold)
    /\ (lastSeenY # -1 /\ ~unseenScroll) => lastSeenY = scrollY

\* A recomputation has just shown the button, one above the default
\* threshold.
C5_Witness ==
    /\ scrollEvent.type = "frame"
    /\ scrollThreshold = ScrollThreshold
    /\ scrollY = ScrollThreshold + 1
    /\ btnVisible

\* C6: with animation frames run fairly, every scroll event is followed by
\* an updateScrollButton run that reads an offset at least as recent, and
\* the ticking flag always returns to false.
C6_MonitorKeepsRunning ==
    /\ unseenScroll ~> ~unseenScroll
    /\ ticking ~> ~ticking

\* A second recomputation has been requested after the first one ran.
C6_Witness ==
    /\ lastSeenY # -1
    /\ scrollEvent.type = "scroll" /\ ~scrollEvent.wasTicking
    /\ ticking /\ rafPending = 1

----------------------------------------------------------------------------
(* Properties of FormManager *)

\* Empty or white space only.
IsBlank(s) == \A i \in 1..Len(s) : s[i] = " "

\* One or more characters that are neither a space nor '@', then '@', one
\* or more such characters, '.', and one or more such characters.
HasEmailShape(s) ==
    \E i, j \in 1..Len(s) :
        /\ 1 < i /\ i + 1 < j /\ j < Len(s)
        /\ s[i] = "@" /\ s[j] = "."
        /\ \A k \in (1..Len(s)) \ {i} : s[k] # " " /\ s[k] # "@"

\* The one outcome the ordered checks give a pair of values.
ExpectedOutcome(e, t) ==
    IF IsBlank(e) THEN Failed("email", EmailRequired)
    ELSE IF ~HasEmailShape(e) THEN Failed("email", EmailInvalid)
    ELSE IF IsBlank(t) THEN Failed("textarea", MessageRequired)
    ELSE Passed

\* C7: submitting a clean, complete form holding any pair of values gives
\* 'Email is required' for a blank email, else 'Please enter a valid email'
\* for an email not of the shape x@y.z, else 'Message is required' (on the
\* textarea) for a blank message, else success; that one error and no other
\* is displayed.
C7_OrderedValidation ==
    formEvent.type = "submit" =>
        LET r == ExpectedOutcome(emailValue, messageValue)
        IN  /\ formEvent.result = r
            /\ errClass = [f \in Fields |-> ~r.ok /\ f = r.field]
            /\ errorEls = [p \in Parents |->
                              IF ~r.ok /\ p = ParentOf(layout, r.field)
                              THEN <<r.message>> ELSE <<>>]

\* An email that passes both checks, submitted with a blank message.
C7_Witness ==
    /\ formEvent.type = "submit"
    /\ emailValue = <<"a", "@", "a", ".", "a">>
    /\ messageValue = <<" ">>
    /\ errorEls["p2"] = <<MessageRequired>>
    /\ ~errClass["email"]

\* C8: no parent of a field ever holds more than one error-message element,
\* whatever is submitted and however often.
C8_OneErrorElementPerField ==
    \A f \in Fields : Len(errorEls[ParentOf(layout, f)]) <= 1

\* An invalid submission found the field's error-message element in place
\* and gave it another text.
C8_Witness ==
    /\ formEvent.type = "submit" /\ formEvent.hadErrorEl
    /\ formEvent.result.message = EmailInvalid
    /\ errorEls["p1"] = <<EmailInvalid>>

\* C9: after any submission of a complete form, a field carries an error
\* state (the 'error' class or aria-invalid) only if that submission's
\* validation failed on it.
C9_ErrorOnlyFromThisSubmission ==
    (hasEmail /\ hasTextarea /\ formEvent.type = "submit") =>
        \A f \in Fields :
            (errClass[f] \/ ariaInvalid[f])
                => (~formEvent.result.ok /\ formEvent.result.field = f)

\* C10: whatever was submitted and when, once every pending timer has fired
\* the submit button has the text it had before the first submission and is
\* enabled.
C10_ButtonRestored ==
    (hasButton /\ timers = <<>>) => (btnText = OriginalText /\ ~btnDisabled)

\* C17: a submission of a form without an email input or without a textarea
\* fails validation and leaves the button's text, its disabled flag and the
\* pending timers as they were; when the field the failure is attributed to
\* is the missing one, no error element is created and no field is marked.
C17_IncompleteFormNeverSent ==
    [][(formEvent'.type = "submit" /\ (~hasEmail \/ ~hasTextarea))
          => /\ ~formEvent'.result.ok
             /\ btnText' = btnText
             /\ btnDisabled' = btnDisabled
             /\ timers' = timers
             /\ ~Present(formEvent'.result.field)
                   => /\ errorEls' = errorEls
                      /\ errClass' = errClass
                      /\ ariaInvalid' = ariaInvalid]_vars

\* A form without a textarea was submitted with a valid email: the failure
\* is attributed to the missing textarea and nothing is shown or sent.
C17_Witness ==
    /\ hasEmail /\ ~hasTextarea /\ hasButton
    /\ formEvent.type = "submit"
    /\ formEvent.result = Failed("textarea", MessageRequired)
    /\ errorEls = [p \in Parents |-> <<>>]
    /\ btnText = OriginalText /\ ~btnDisabled /\ timers = <<>>

----------------------------------------------------------------------------
(* Properties of PerformanceOptimizer *)

\* C11: with IntersectionObserver available and however many entries are
\* delivered, the callback body runs at most once for each image and each
\* card; it has run exactly for the elements that were given an intersecting
\* entry, and exactly those are no longer observed; an image it ran for has
\* its source copied and the 'loaded' class (a card the 'fade-in' class) and
\* the others are untouched.
C11_LoadedExactlyOnce ==
    hasIO =>
        /\ \A i \in Images :
              LET img == imgs.els[i]
              IN  /\ img.runs = IF img.seen THEN 1 ELSE 0
                  /\ img.seen <=> i \notin imgs.observed
                  /\ img.loaded <=> img.seen
                  /\ img.src = IF img.seen /\ img.dataSrc # ""
                               THEN img.dataSrc ELSE Placeholder
        /\ \A c \in Cards :
              LET card == cards.els[c]
              IN  /\ card.runs = IF card.seen THEN 1 ELSE 0
                  /\ card.seen <=> c \notin cards.observed
                  /\ card.fadeIn <=> card.seen

\* An image was notified twice, not intersecting and then intersecting, and
\* was loaded once; a card was revealed as well.
C11_Witness ==
    /\ hasIO
    /\ \E i \in Images :
          /\ imgs.els[i].entries = 2 /\ imgs.els[i].runs = 1
          /\ imgs.els[i].loaded /\ imgs.els[i].src = "real.jpg"
    /\ \E c \in Cards : cards.els[c].entries = 2 /\ cards.els[c].fadeIn

----------------------------------------------------------------------------
(* Properties of PortfolioManager *)

\* The init() calls made so far under the given readiness.
CallsWhile(loading) ==
    Cardinality({k \in DOMAIN initCalls : (initCalls[k] = "loading") = loading})

\* The runs of initializeModules() owed so far: one for each init() call made
\* after loading, and one for the event if a call was made while loading.
RunsOwed ==
    CallsWhile(FALSE) + (IF CallsWhile(TRUE) > 0 /\ dclFired THEN 1 ELSE 0)

\* C12: no module init() runs while the document is loading; the init()
\* calls made while loading are answered by one run of the seven module
\* inits when DOMContentLoaded fires and by none before; every other call is
\* answered at once by one run; and every run is in the fixed order.
C12_DeferredUntilReady ==
    /\ \A k \in DOMAIN initLog : initLog[k].readyState # "loading"
    /\ Len(initLog) = Len(ModuleOrder) * RunsOwed
    /\ \A k \in DOMAIN initLog :
          initLog[k].module = ModuleOrder[((k - 1) % Len(ModuleOrder)) + 1]
    /\ Cardinality({k \in DOMAIN initLog : initLog[k].from = "event"})
          = IF CallsWhile(TRUE) > 0 /\ dclFired THEN Len(ModuleOrder) ELSE 0
    /\ ModuleOrder = <<"MobileMenu", "NavigationManager", "ScrollManager",
                       "FormManager", "PerformanceOptimizer",
                       "AccessibilityManager", "UIEnhancements">>

\* init() was called while loading and again after parsing; the event has
\* fired and both runs are done.
C12_Witness ==
    /\ initCalls = <<"loading", "interactive">>
    /\ dclFired
    /\ Len(initLog) = 2 * Len(ModuleOrder)
    /\ initLog[1].from = "call"
    /\ initLog[Len(initLog)].from = "event"

----------------------------------------------------------------------------
(* Properties of NavigationManager *)

\* The last path segment: what follows the last "/" of the path.
LastSegment(p) ==
    LET slashes == {k \in DOMAIN p : p[k] = "/"}
        last == CHOOSE k \in slashes : \A j \in slashes : j <= k
    IN  SubSeq(p, last + 1, Len(p))

\* The current page name: the last path segment, or the home file name when
\* that segment is empty.
PageName(p) == IF LastSegment(p) = <<>> THEN <<"index.html">> ELSE LastSegment(p)

\* C13: after the pass at init and after every hashchange pass, a nav link
\* has 'active' and aria-current = "page" if its href attribute equals the
\* current page name, and has neither 'active' nor any aria-current other
\* than "false" if it does not.
C13_ActiveLinkMatchesPage ==
    \A l \in PageLinks :
        LET link == pageLinks[l]
        IN  IF link.hasHref /\ link.href = PageName(pathname)
            THEN link.active /\ link.ariaCurrent = "page"
            ELSE ~link.active /\ link.ariaCurrent = "false"

\* After a hashchange on /about.html, the about link is the active one and a
\* link to another page is not.
C13_Witness ==
    /\ navEvent.type = "hashchange"
    /\ PageName(pathname) = <<"about.html">>
    /\ \E l \in PageLinks : pageLinks[l].href = <<"about.html">>
                              /\ pageLinks[l].active
    /\ \E l \in PageLinks : pageLinks[l].href = <<"index.html">>
                              /\ ~pageLinks[l].active

\* C19: a click on a fragment link other than "#" has its default
\* suppressed and raises no error; it scrolls to and focuses the element
\* whose id the fragment names once each when there is one, and does
\* neither when there is none. A click on a "#" link is not intercepted.
C19_FragmentClick ==
    smoothEvent.type = "click" =>
        LET o == smoothEvent.outcome
        IN  IF smoothEvent.href = <<"#">>
            THEN ~o.prevented
            ELSE /\ o.prevented
                 /\ ~o.threw
                 /\ IF Tail(smoothEvent.href) \in pageIds
                    THEN o.scrolled = 1 /\ o.focused = 1
                    ELSE o.scrolled = 0 /\ o.focused = 0

----------------------------------------------------------------------------
(* Properties of throttle and debounce *)

\* C14: once the throttled function has been called, func has been invoked
\* (the first call invokes it at once), and any two invocations of func are
\* at least the limit apart.
C14_MinimumInterval ==
    /\ thrCalls > 0 => thrLog # <<>>
    /\ \A j, k \in DOMAIN thrLog :
          j < k => thrLog[k].at - thrLog[j].at >= ThrLimit


\* C15: at most one timer is pending; one is pending exactly while calls
\* wait for their invocation, and it is the last call's: due one delay after
\* it, holding its argument. func has run once for each burst of calls a
\* timer has ended, no sooner than one delay after the burst's last call,
\* and with that call's argument.
C15_OncePerBurstAfterQuiet ==
    /\ Cardinality(debTimers) <= 1
    /\ debOpen.calls > 0 <=> debTimers # {}
    /\ \A t \in debTimers :
          /\ t.id = timeoutId
          /\ t.due = debOpen.lastAt + DebDelay
          /\ t.arg = debOpen.lastArg
    /\ Len(debLog) = Len(debClosed)
    /\ \A k \in DOMAIN debLog :
          /\ k \in DOMAIN debClosed
          /\ debLog[k].at >= debClosed[k].lastAt + DebDelay
          /\ debLog[k].arg = debClosed[k].lastArg

\* A burst of two calls with different arguments, one time unit apart, has
\* been answered by one invocation with the second call's argument.
C15_Witness ==
    /\ Len(debLog) = 1
    /\ debClosed[1].calls = 2
    /\ debLog[1].arg = "y"
    /\ debLog[1].at = debClosed[1].lastAt + DebDelay
    /\ debTimers = {}
    /\ debEvent.type = "timeout"

----------------------------------------------------------------------------
(* Properties of AccessibilityManager *)

\* The attributes of the page: what init() sets, without the listeners.
Attributes(page) ==
    [roleButtons |-> [b \in DOMAIN page.roleButtons |->
                         page.roleButtons[b].tabindex],
     iconButtons |-> page.iconButtons]

\* C16: once init() has run, however often, the attributes are those one
\* run gives, and an Enter or Space press on a role="button" element
\* activates it once.
C16_InitIdempotent ==
    a11yInits >= 1 =>
        /\ Attributes([roleButtons |-> roleButtons,
                       iconButtons |-> iconButtons])
              = Attributes(AccessibilityManagerInit(a11yMarkup))
        /\ (a11yEvent.type = "keydown" /\ a11yEvent.key \in {"Enter", " "})
              => a11yEvent.clicks = 1

====
